---- MODULE Spec2Model ----
(***************************************************************************)
(* Model of the load-generation client of tough-client (src/simulator.py): *)
(* two Client tasks and the Display task run on one asyncio event loop     *)
(* against a shared deadline; Simulator.start gathers them and prints the  *)
(* final report; main runs it and handles the operator's interrupt.        *)
(*                                                                         *)
(* Time is the wall clock in ticks of half a second (the renderer's sleep).*)
(* One action is one step of a task between two suspension points.         *)
(***************************************************************************)
EXTENDS Integers, Sequences, FiniteSets, TLC

VARIABLES
    state,        \* phase of the run: INIT, RUNNING, COMPLETED, REPORTED, EXITED, CRASHED
    platform,     \* os.name: "posix" or "nt"
    handlers,     \* TRUE when loop.add_signal_handler installed the handlers
    raised,       \* the exception asyncio.run raises into main ("none" when none)
    escaped,      \* the exception that left main unhandled ("none" when none)
    duration,     \* Simulator.duration, seconds
    now,          \* wall clock, ticks
    endTime,      \* end_time as passed to each task
    pc,           \* each task's position
    wakeAt,       \* the time a sleeping task's asyncio.sleep is due
    sentAt,       \* start_time of the request in flight
    n_success,    \* Client.n_success
    n_failure,    \* Client.n_failure
    logs,         \* Client.logs: insertion-ordered mapping, a sequence of [key, msg]
    log_key,      \* run_once's local log_key
    response,     \* the httpx response run_once is classifying
    pendingExc,   \* the exception travelling from the with-block to the except clause
    stdout,       \* notices and report printed by the handler, main and display_results
    report,       \* what display_results printed per client
    started,      \* history: run_once calls begun
    returned,     \* history: run_once calls that returned
    iterAt,       \* history: time the task's latest loop iteration began
    lateDone,     \* history: cycles classified at or after the deadline
    frames,       \* history: frames rendered
    firstOrder,   \* history: log keys in order of first insertion
    writeOrder,   \* history: log entries in order of latest write
    text,         \* ansi_ljust argument
    width,        \* ansi_ljust argument
    padded,       \* ansi_ljust result
    rendered,     \* TRUE once ansi_ljust has been applied
    term_width,   \* display_logs' term_width
    pane_width    \* display_logs' pane_width (0 before a frame is laid out)

vars == <<state, platform, handlers, raised, escaped, duration, now, endTime, pc,
          wakeAt, sentAt, n_success, n_failure, logs, log_key, response, pendingExc,
          stdout, report, started, returned, iterAt, lateDone, frames, firstOrder,
          writeOrder, text, width, padded, rendered, term_width, pane_width>>

runVars == <<state, platform, handlers, raised, escaped, duration, endTime, stdout, report>>
cellVars == <<text, width, padded, rendered, term_width, pane_width>>

----------------------------------------------------------------------------
(* Bounds of the model *)

\* longest configured duration explored, seconds
MaxDuration == 2
\* ticks a request may stay in flight (stands for the 120 s timeout)
MaxLatency == 1
\* ticks in a day: the period of the %H:%M:%S.%f key
DayLen == 12
\* ticks the log harness runs past one full day
LogExtra == 2
\* longest text and widest cell given to ansi_ljust
MaxTextLen == 3
MaxWidth == 4
\* widest terminal laid out
MaxTermWidth == 100

----------------------------------------------------------------------------
(* Program constants *)

MAX_LOGS == 10
\* _get_term_width: the width used when the terminal has none
FallbackWidth == 80
\* display_logs: the smallest pane
MinPane == 20
\* asyncio.sleep(0.5) of Display.run, in ticks
DisplaySleep == 1

Clients == {1, 2}
Display == 3
Tasks == Clients \cup {Display}

\* Simulator.__init__: the two fixed profiles (interval in ticks of 0.5 s)
n_chars(c) == IF c = 1 THEN 16 ELSE 32
interval(c) == IF c = 1 THEN 2 ELSE 16

SecondsToTicks(s) == 2 * s

\* the run starts in the last tick before midnight, so that the keys of one
\* run lie on both sides of the wrap of the time of day
StartOfRun == DayLen - 1

NoKey == -1
Never == -1

GREEN == "92"
RED == "91"
BLUE == "94"

----------------------------------------------------------------------------
(* The upstream endpoint: every response or transport failure a post can end in *)

Statuses == {200, 429, 503}
Absent == 0
Bodies ==
    [kind : {"object"}, n_chars : {16, 32}]
        \cup {[kind |-> "text", n_chars |-> Absent]}
Responses == [status : Statuses, body : Bodies, failure : {"none"}]
TransportFailures ==
    {[status |-> 0, body |-> [kind |-> "text", n_chars |-> Absent], failure |-> "ConnectError"]}
Outcomes == Responses \cup TransportFailures
NoResponse == [status |-> 0, body |-> [kind |-> "text", n_chars |-> Absent], failure |-> "no response"]

----------------------------------------------------------------------------
(* Client *)

\* datetime.now().strftime("%H:%M:%S.%f"): the time of day, which wraps at midnight
StrfTime(t) == t % DayLen

Msg(color, kind, code, detail) ==
    [color |-> color, kind |-> kind, code |-> code, detail |-> detail]

IndexOfKey(log, key) ==
    IF \E i \in 1..Len(log) : log[i].key = key
    THEN CHOOSE i \in 1..Len(log) : log[i].key = key
    ELSE 0

\* a mapping that moves a rewritten key to the end
upsert_log_MoveToEnd(log, message, color, key) ==
    Append(SelectSeq(log, LAMBDA e : e.key # key),
           [key |-> key, msg |-> [message EXCEPT !.color = color]])

\* Client.upsert_log: self.logs[log_key] = colored_message; a dict keeps the
\* position of a key that is already present
upsert_log(log, message, color, key) ==
    LET entry == [key |-> key, msg |-> [message EXCEPT !.color = color]]
        i == IndexOfKey(log, key)
    IN  IF i = 0 THEN Append(log, entry) ELSE [log EXCEPT ![i] = entry]

\* bookkeeping of the writes, kept apart from upsert_log
NoteFirst(order, key) ==
    IF \E i \in 1..Len(order) : order[i] = key THEN order ELSE Append(order, key)
NoteWrite(order, key, message, color) ==
    Append(SelectSeq(order, LAMBDA e : e.key # key),
           [key |-> key, msg |-> [message EXCEPT !.color = color]])

\* a 200 response counted as a success without comparing the echoed size
Classify_NoEchoCheck(c, r) ==
    IF r.failure # "none"
    THEN [exc |-> r.failure, counter |-> "none", msg |-> Msg(RED, "Error", 0, r.failure)]
    ELSE IF r.body.kind = "text"
    THEN [exc |-> "JSONDecodeError", counter |-> "none", msg |-> Msg(RED, "Error", 0, "JSONDecodeError")]
    ELSE IF r.status = 200
    THEN [exc |-> "none", counter |-> "success", msg |-> Msg(GREEN, "Sent", 200, "")]
    ELSE IF r.status = 429
    THEN [exc |-> "none", counter |-> "failure", msg |-> Msg(RED, "RateLimited", 429, "")]
    ELSE [exc |-> "none", counter |-> "failure", msg |-> Msg(RED, "StatusError", r.status, "")]

\* run_once lines 77-97: what the with-block does with the outcome of the post.
\* exc is the exception it raises ("none" when it completes); otherwise counter
\* and msg are the counter it increments and the entry it writes.
Classify(c, r) ==
    IF r.failure # "none"
    THEN [exc |-> r.failure, counter |-> "none", msg |-> Msg(RED, "Error", 0, r.failure)]
    ELSE IF r.body.kind = "text"
    THEN \* response.json() raises on a body that is not JSON, before the status is read
         [exc |-> "JSONDecodeError", counter |-> "none", msg |-> Msg(RED, "Error", 0, "JSONDecodeError")]
    ELSE IF r.status = 200
    THEN IF r.body.kind # "object"
         THEN \* response_json.get: a JSON array has no get
              [exc |-> "AttributeError", counter |-> "none", msg |-> Msg(RED, "Error", 0, "AttributeError")]
         ELSE IF r.body.n_chars = n_chars(c)
         THEN [exc |-> "none", counter |-> "success", msg |-> Msg(GREEN, "Sent", 200, "")]
         ELSE [exc |-> "none", counter |-> "failure", msg |-> Msg(RED, "Incorrect", 200, "")]
    ELSE IF r.status = 429
    THEN [exc |-> "none", counter |-> "failure", msg |-> Msg(RED, "RateLimited", 429, "")]
    ELSE [exc |-> "none", counter |-> "failure", msg |-> Msg(RED, "StatusError", r.status, "")]

\* a loop that also runs at the deadline itself
LoopGuard_Inclusive(t) == now <= endTime[t]

\* while time.time() < end_time (Client.run and Display.run)
LoopGuard(t) == now < endTime[t]

Due(t) == pc[t] = "ready" \/ (pc[t] = "sleeping" /\ now >= wakeAt[t])

\* one log shared by the clients, as a dictionary kept on the class would be
WriteLog_Shared(c, message, color, key) ==
    /\ logs' = [d \in Clients |-> upsert_log(logs[d], message, color, key)]
    /\ firstOrder' = [firstOrder EXCEPT ![c] = NoteFirst(@, key)]
    /\ writeOrder' = [writeOrder EXCEPT ![c] = NoteWrite(@, key, message, color)]

\* self.upsert_log(...) of one client, with the history of its keys
WriteLog(c, message, color, key) ==
    /\ logs' = [logs EXCEPT ![c] = upsert_log(@, message, color, key)]
    /\ firstOrder' = [firstOrder EXCEPT ![c] = NoteFirst(@, key)]
    /\ writeOrder' = [writeOrder EXCEPT ![c] = NoteWrite(@, key, message, color)]

\* Client.run: the loop test, then run_once up to the await of the post
ClientLoop(c) ==
    /\ state = "RUNNING"
    /\ Due(c)
    /\ IF LoopGuard(c)
       THEN /\ log_key' = [log_key EXCEPT ![c] = StrfTime(now)]
            /\ WriteLog(c, Msg("", "Sending", 0, ""), BLUE, StrfTime(now))
            /\ sentAt' = [sentAt EXCEPT ![c] = now]
            /\ pc' = [pc EXCEPT ![c] = "inflight"]
            /\ started' = [started EXCEPT ![c] = @ + 1]
            /\ iterAt' = [iterAt EXCEPT ![c] = now]
       ELSE /\ pc' = [pc EXCEPT ![c] = "done"]
            /\ UNCHANGED <<log_key, logs, firstOrder, writeOrder, sentAt, started, iterAt>>
    /\ UNCHANGED <<runVars, now, wakeAt, n_success, n_failure, response, pendingExc,
                   returned, lateDone, frames, cellVars>>

\* a post without a timeout: a request not answered within the bound never ends
PostReturns_NoTimeout(c) == pc[c] = "inflight" /\ now - sentAt[c] < MaxLatency

\* await client.post(..., timeout=120.0): the post returns or raises, at the
\* latest when the timeout expires
PostReturns(c) == pc[c] = "inflight"

\* the outcome written under a key taken anew
OutcomeKey_Fresh(c) == StrfTime(now)

\* the log_key of line 71, used again for the outcome of the cycle
OutcomeKey(c) == log_key[c]

\* run_once lines 77-97: the post returns or fails; the response is classified
\* and the task suspends in the client's __aexit__
ClientResponse(c, r) ==
    /\ state = "RUNNING"
    /\ PostReturns(c)
    /\ LET o == Classify(c, r)
       IN  /\ response' = [response EXCEPT ![c] = r]
           /\ pendingExc' = [pendingExc EXCEPT ![c] = o.exc]
           /\ IF o.exc = "none"
              THEN /\ n_success' = [n_success EXCEPT ![c] = IF o.counter = "success" THEN @ + 1 ELSE @]
                   /\ n_failure' = [n_failure EXCEPT ![c] = IF o.counter = "failure" THEN @ + 1 ELSE @]
                   /\ WriteLog(c, o.msg, o.msg.color, OutcomeKey(c))
                   /\ lateDone' = [lateDone EXCEPT ![c] = IF now >= endTime[c] THEN @ + 1 ELSE @]
              ELSE UNCHANGED <<n_success, n_failure, logs, firstOrder, writeOrder, lateDone>>
    /\ pc' = [pc EXCEPT ![c] = "closing"]
    /\ UNCHANGED <<runVars, now, wakeAt, sentAt, log_key, started, returned, iterAt,
                   frames, cellVars>>

\* the except clause without its counter
ExceptClause_NoCount(c) ==
    /\ UNCHANGED n_failure
    /\ WriteLog(c, Msg("", "Error", 0, pendingExc[c]), RED, log_key[c])

\* the except clause without its log entry
ExceptClause_NoLog(c) ==
    /\ n_failure' = [n_failure EXCEPT ![c] = @ + 1]
    /\ UNCHANGED <<logs, firstOrder, writeOrder>>

\* run_once lines 98-100: except Exception
ExceptClause(c) ==
    /\ n_failure' = [n_failure EXCEPT ![c] = @ + 1]
    /\ WriteLog(c, Msg("", "Error", 0, pendingExc[c]), RED, OutcomeKey(c))

\* a clause that handles the transport's errors only
ExceptCatches_TransportOnly(e) == e \in {"ConnectError"}

\* except Exception: every exception the with-block can raise is an Exception
\* (the CancelledError of a cancelled task is not, and is dealt with in Interrupt)
ExceptCatches(e) == e \in {"ConnectError", "JSONDecodeError", "AttributeError"}

\* a sleep skipped after a failed cycle
NextWake_SkipAfterError(c) == IF pendingExc[c] # "none" THEN now ELSE now + interval(c)

\* Client.run line 63: await asyncio.sleep(self.interval)
NextWake(c) == now + interval(c)

\* the client is closed; a pending exception reaches the except clause;
\* run_once returns and Client.run starts asyncio.sleep(self.interval).
\* An exception the clause does not handle would leave run_once, Client.run
\* and, through asyncio.gather, Simulator.start and main.
ClientReturn(c) ==
    /\ state = "RUNNING"
    /\ pc[c] = "closing"
    /\ IF pendingExc[c] = "none" \/ ExceptCatches(pendingExc[c])
       THEN /\ IF pendingExc[c] # "none"
               THEN /\ ExceptClause(c)
                    /\ lateDone' = [lateDone EXCEPT ![c] = IF now >= endTime[c] THEN @ + 1 ELSE @]
               ELSE UNCHANGED <<n_failure, logs, firstOrder, writeOrder, lateDone>>
            /\ pendingExc' = [pendingExc EXCEPT ![c] = "none"]
            /\ response' = [response EXCEPT ![c] = NoResponse]
            /\ log_key' = [log_key EXCEPT ![c] = NoKey]
            /\ returned' = [returned EXCEPT ![c] = @ + 1]
            /\ pc' = [pc EXCEPT ![c] = "sleeping"]
            /\ wakeAt' = [wakeAt EXCEPT ![c] = NextWake(c)]
            /\ UNCHANGED <<runVars>>
       ELSE /\ pc' = [t \in Tasks |-> IF t = c THEN "failed"
                                      ELSE IF pc[t] = "done" THEN "done" ELSE "cancelled"]
            /\ raised' = pendingExc[c]
            /\ escaped' = pendingExc[c]
            /\ state' = "CRASHED"
            /\ UNCHANGED <<platform, handlers, duration, endTime, stdout, report,
                           n_failure, logs, firstOrder, writeOrder, lateDone, pendingExc,
                           response, log_key, returned, wakeAt>>
    /\ UNCHANGED <<now, sentAt, n_success, started, iterAt, frames, cellVars>>

\* a rate that takes a client with no cycle for a perfect one
get_success_rate_EmptyIsPerfect(c) ==
    IF n_success[c] + n_failure[c] > 0
    THEN (n_success[c] * 100) \div (n_success[c] + n_failure[c])
    ELSE 100

\* Client.get_success_rate, the whole part of the percentage
get_success_rate(c) ==
    LET total == n_success[c] + n_failure[c]
    IN  IF total > 0 THEN (n_success[c] * 100) \div total ELSE 0

\* Client.get_stats_output: the rate line is printed only when a request was made
get_stats_output(c) ==
    [success |-> n_success[c],
     failure |-> n_failure[c],
     rate |-> IF n_success[c] + n_failure[c] > 0 THEN get_success_rate(c) ELSE Never]

----------------------------------------------------------------------------
(* Display *)

Max(a, b) == IF a >= b THEN a ELSE b

\* display_logs lines 195-196: list(client.logs.items())[-MAX_LOGS:]
DisplayTail(log) == SubSeq(log, Max(1, Len(log) - MAX_LOGS + 1), Len(log))

\* Display.run: the loop test, one frame, then asyncio.sleep(0.5)
DisplayLoop ==
    /\ state = "RUNNING"
    /\ Due(Display)
    /\ IF LoopGuard(Display)
       THEN /\ frames' = frames + 1
            /\ iterAt' = [iterAt EXCEPT ![Display] = now]
            /\ pc' = [pc EXCEPT ![Display] = "sleeping"]
            /\ wakeAt' = [wakeAt EXCEPT ![Display] = now + DisplaySleep]
       ELSE /\ pc' = [pc EXCEPT ![Display] = "done"]
            /\ UNCHANGED <<frames, iterAt, wakeAt>>
    /\ UNCHANGED <<runVars, now, sentAt, n_success, n_failure, logs, log_key, response,
                   pendingExc, started, returned, lateDone, firstOrder, writeOrder, cellVars>>

----------------------------------------------------------------------------
(* Display.ansi_ljust.  A text is a sequence of characters; the alphabet has  *)
(* one character of each class the pattern tells apart.                       *)

ESC == "ESC"
Alphabet == {ESC, "[", "9", " ", "m", "A"}
\* [@-Z\\-_]: the byte after ESC of a two-character sequence
FeChars == {"A"}
\* [0-?], [ -/] and [@-~]: parameter, intermediate and final bytes of a CSI sequence
ParamChars == {"9"}
InterChars == {" "}
FinalChars == {"A", "m", "["}

RECURSIVE SkipWhile(_, _, _)
\* the first position from i on whose character is not in the class
SkipWhile(t, i, class) ==
    IF i <= Len(t) /\ t[i] \in class THEN SkipWhile(t, i + 1, class) ELSE i

\* length of the match of \x1B(?:[@-Z\\-_]|\[[0-?]*[ -/]*[@-~]) at position i, 0 if none
MatchLen(t, i) ==
    IF t[i] # ESC \/ i = Len(t) THEN 0
    ELSE IF t[i + 1] \in FeChars THEN 2
    ELSE IF t[i + 1] # "[" THEN 0
    ELSE LET j == SkipWhile(t, SkipWhile(t, i + 2, ParamChars), InterChars)
         IN  IF j <= Len(t) /\ t[j] \in FinalChars THEN j - i + 1 ELSE 0

RECURSIVE StripFrom(_, _)
\* ansi_escape.sub("", text), from position i on
StripFrom(t, i) ==
    IF i > Len(t) THEN <<>>
    ELSE IF MatchLen(t, i) > 0 THEN StripFrom(t, i + MatchLen(t, i))
    ELSE <<t[i]>> \o StripFrom(t, i + 1)

RECURSIVE SequencesFrom(_, _)
\* the control sequences the pattern finds, in order
SequencesFrom(t, i) ==
    IF i > Len(t) THEN <<>>
    ELSE IF MatchLen(t, i) > 0
         THEN <<SubSeq(t, i, i + MatchLen(t, i) - 1)>> \o SequencesFrom(t, i + MatchLen(t, i))
    ELSE SequencesFrom(t, i + 1)

VisibleLength(t) == Len(StripFrom(t, 1))
ControlSequences(t) == SequencesFrom(t, 1)

Spaces(n) == [i \in 1..n |-> " "]

\* Display.ansi_ljust lines 165-175
ansi_ljust(t, w) ==
    LET visible_length == VisibleLength(t)
        padding == Max(0, w - visible_length)
    IN  t \o Spaces(padding)

\* display_logs lines 213-214: one cell is justified to the pane width
Ljust ==
    /\ ~rendered
    /\ padded' = ansi_ljust(text, width)
    /\ rendered' = TRUE
    /\ UNCHANGED <<runVars, now, pc, wakeAt, sentAt, n_success, n_failure, logs, log_key,
                   response, pendingExc, started, returned, iterAt, lateDone, frames,
                   firstOrder, writeOrder, text, width, term_width, pane_width>>

----------------------------------------------------------------------------
(* Simulator and main *)

\* Simulator.start lines 263-284: handlers, end_time, the three coroutines
Start ==
    /\ state = "INIT"
    /\ state' = "RUNNING"
    /\ handlers' = (platform # "nt")
    /\ endTime' = [t \in Tasks |-> now + SecondsToTicks(duration)]
    /\ pc' = [t \in Tasks |-> "ready"]
    /\ UNCHANGED <<platform, raised, escaped, duration, now, wakeAt, sentAt, n_success,
                   n_failure, logs, log_key, response, pendingExc, stdout, report,
                   started, returned, iterAt, lateDone, frames, firstOrder, writeOrder,
                   cellVars>>

AllDone == \A t \in Tasks : pc[t] = "done"

\* the clock moves while every task is suspended and waiting
Tick ==
    /\ state = "RUNNING"
    /\ ~AllDone
    /\ \A t \in Tasks : ~Due(t) /\ pc[t] # "closing"
    /\ \A c \in Clients : pc[c] = "inflight" => now - sentAt[c] < MaxLatency
    /\ now' = now + 1
    /\ UNCHANGED <<runVars, pc, wakeAt, sentAt, n_success, n_failure, logs, log_key,
                   response, pendingExc, started, returned, iterAt, lateDone, frames,
                   firstOrder, writeOrder, cellVars>>

\* asyncio.gather returns once the three tasks have finished
GatherDone ==
    /\ state = "RUNNING"
    /\ AllDone
    /\ state' = "COMPLETED"
    /\ UNCHANGED <<platform, handlers, raised, escaped, duration, now, endTime, pc,
                   wakeAt, sentAt, n_success, n_failure, logs, log_key, response,
                   pendingExc, stdout, report, started, returned, iterAt, lateDone,
                   frames, firstOrder, writeOrder, cellVars>>

\* Simulator.start lines 286-291: Display.display_results; start and main return
Report ==
    /\ state = "COMPLETED"
    /\ report' = [c \in Clients |-> get_stats_output(c)]
    /\ stdout' = Append(stdout, "SIMULATION RESULTS")
    /\ state' = "REPORTED"
    /\ UNCHANGED <<platform, handlers, raised, escaped, duration, now, endTime, pc,
                   wakeAt, sentAt, n_success, n_failure, logs, log_key, response,
                   pendingExc, started, returned, iterAt, lateDone, frames, firstOrder,
                   writeOrder, cellVars>>

Signals == {"SIGINT", "SIGTERM"}

\* The operator's signal while the loop runs.  With the handlers installed
\* (line 274) the handler prints its notice and calls loop.stop(), and
\* run_until_complete raises RuntimeError because the future is not done.
\* Without them SIGINT surfaces as KeyboardInterrupt out of asyncio.run.
\* Either way asyncio.run cancels every task that has not finished
\* (CancelledError is not an Exception, so run_once's except clause does not
\* see it), and the exception reaches main lines 307-310, which handles
\* KeyboardInterrupt only.
Interrupt(sig) ==
    /\ state = "RUNNING"
    /\ handlers \/ sig = "SIGINT"
    /\ pc' = [t \in Tasks |-> IF pc[t] = "done" THEN "done" ELSE "cancelled"]
    /\ IF handlers
       THEN /\ stdout' = Append(stdout, "Simulation interrupted.")
            /\ raised' = "RuntimeError"
       ELSE /\ stdout' = Append(stdout, "Simulation interrupted by user.")
            /\ raised' = "KeyboardInterrupt"
    /\ escaped' = IF raised' = "KeyboardInterrupt" THEN "none" ELSE raised'
    /\ state' = IF escaped' = "none" THEN "EXITED" ELSE "CRASHED"
    /\ UNCHANGED <<platform, handlers, duration, now, endTime, wakeAt, sentAt,
                   n_success, n_failure, logs, log_key, response, pendingExc, report,
                   started, returned, iterAt, lateDone, frames, firstOrder, writeOrder,
                   cellVars>>

----------------------------------------------------------------------------
(* The run *)

InitClients ==
    /\ n_success = [c \in Clients |-> 0]
    /\ n_failure = [c \in Clients |-> 0]
    /\ logs = [c \in Clients |-> <<>>]
    /\ log_key = [c \in Clients |-> NoKey]
    /\ response = [c \in Clients |-> NoResponse]
    /\ pendingExc = [c \in Clients |-> "none"]
    /\ sentAt = [c \in Clients |-> Never]
    /\ started = [c \in Clients |-> 0]
    /\ returned = [c \in Clients |-> 0]
    /\ lateDone = [c \in Clients |-> 0]
    /\ firstOrder = [c \in Clients |-> <<>>]
    /\ writeOrder = [c \in Clients |-> <<>>]

InitCell ==
    /\ text = <<>>
    /\ width = 0
    /\ padded = <<>>
    /\ rendered = FALSE
    /\ term_width = FallbackWidth
    /\ pane_width = 0

\* the state after Simulator.__init__, before asyncio.run
InitRun ==
    /\ state = "INIT"
    /\ handlers = FALSE
    /\ raised = "none"
    /\ escaped = "none"
    /\ now = StartOfRun
    /\ endTime = [t \in Tasks |-> Never]
    /\ pc = [t \in Tasks |-> "new"]
    /\ wakeAt = [t \in Tasks |-> Never]
    /\ iterAt = [t \in Tasks |-> Never]
    /\ frames = 0
    /\ stdout = <<>>
    /\ report = [c \in Clients |-> [success |-> 0, failure |-> 0, rate |-> Never]]
    /\ InitClients

Init ==
    /\ InitRun
    /\ platform \in {"posix", "nt"}
    /\ duration \in 0..MaxDuration
    /\ InitCell

Next ==
    \/ Start
    \/ \E c \in Clients : ClientLoop(c)
    \/ \E c \in Clients : \E r \in Outcomes : ClientResponse(c, r)
    \/ \E c \in Clients : ClientReturn(c)
    \/ DisplayLoop
    \/ Tick
    \/ GatherDone
    \/ Report
    \/ \E sig \in Signals : Interrupt(sig)

Spec == Init /\ [][Next]_vars

\* the run without an operator's signal, every enabled step eventually taken:
\* the event loop runs a task that is ready, the clock advances and every
\* request ends within its timeout
NextNatural ==
    \/ Start
    \/ \E c \in Clients : ClientLoop(c)
    \/ \E c \in Clients : \E r \in Outcomes : ClientResponse(c, r)
    \/ \E c \in Clients : ClientReturn(c)
    \/ DisplayLoop
    \/ Tick
    \/ GatherDone
    \/ Report

Natural == Init /\ [][NextNatural]_vars /\ WF_vars(NextNatural)

----------------------------------------------------------------------------
(* The log of one client over more than a day: run_once's two writes are      *)
(* applied with the clock as the only input, so that a key can come back.     *)

\* run_once lines 70-72: the key is taken and the Sending entry written
\* (a client's next cycle begins after its sleep, at a later time)
LogBegin(c) ==
    /\ log_key[c] = NoKey
    /\ sentAt[c] # now
    /\ log_key' = [log_key EXCEPT ![c] = StrfTime(now)]
    /\ WriteLog(c, Msg("", "Sending", 0, ""), BLUE, StrfTime(now))
    /\ sentAt' = [sentAt EXCEPT ![c] = now]
    /\ started' = [started EXCEPT ![c] = @ + 1]
    /\ UNCHANGED <<runVars, now, pc, wakeAt, n_success, n_failure, response,
                   pendingExc, returned, iterAt, lateDone, frames, cellVars>>

\* run_once lines 83-88: the outcome is written under the same key
LogEnd(c) ==
    /\ log_key[c] # NoKey
    /\ WriteLog(c, Msg("", "Sent", 200, ""), GREEN, log_key[c])
    /\ log_key' = [log_key EXCEPT ![c] = NoKey]
    /\ n_success' = [n_success EXCEPT ![c] = @ + 1]
    /\ returned' = [returned EXCEPT ![c] = @ + 1]
    /\ UNCHANGED <<runVars, now, pc, wakeAt, sentAt, n_failure, response, pendingExc,
                   started, iterAt, lateDone, frames, cellVars>>

LogTick ==
    /\ now < StartOfRun + DayLen + LogExtra
    /\ now' = now + 1
    /\ UNCHANGED <<runVars, pc, wakeAt, sentAt, n_success, n_failure, logs, log_key,
                   response, pendingExc, started, returned, iterAt, lateDone, frames,
                   firstOrder, writeOrder, cellVars>>

InitLog == InitRun /\ platform = "posix" /\ duration = MaxDuration /\ InitCell

NextLog ==
    \/ LogBegin(1)
    \/ LogEnd(1)
    \/ LogTick

SpecLog == InitLog /\ [][NextLog]_vars

----------------------------------------------------------------------------
(* One cell: a text and a width drawn from the bounded sets, justified once *)

Texts == UNION {[1..n -> Alphabet] : n \in 0..MaxTextLen}

InitCellInputs ==
    /\ text \in Texts
    /\ width \in 0..MaxWidth
    /\ padded = <<>>
    /\ rendered = FALSE
    /\ term_width = FallbackWidth
    /\ pane_width = 0

InitCells == InitRun /\ platform = "posix" /\ duration = MaxDuration /\ InitCellInputs

NextCell == Ljust

SpecCell == InitCells /\ [][NextCell]_vars

-----------------------------------------------------------------------------
(* One frame's layout: a terminal width drawn from the bounded set, split    *)
(* into the two panes of display_logs                                        *)

\* the width of " | ", what line 191 prints between the two panes
DividerWidth == 3

\* a pane computed as if the divider took one column
PaneWidth_OneColumn(w) == Max(MinPane, (w - 1) \div 2)

\* display_logs line 182: pane_width = max(20, (term_width - 3) // 2)
PaneWidth(w) == Max(MinPane, (w - DividerWidth) \div 2)

\* display_logs lines 181-182
Layout ==
    /\ pane_width = 0
    /\ pane_width' = PaneWidth(term_width)
    /\ UNCHANGED <<runVars, now, pc, wakeAt, sentAt, n_success, n_failure, logs, log_key,
                   response, pendingExc, started, returned, iterAt, lateDone, frames,
                   firstOrder, writeOrder, text, width, padded, rendered, term_width>>

InitPane ==
    /\ InitRun /\ platform = "posix" /\ duration = MaxDuration
    /\ text = <<>> /\ width = 0 /\ padded = <<>> /\ rendered = FALSE
    /\ term_width \in 0..MaxTermWidth
    /\ pane_width = 0

NextPane == Layout

SpecPane == InitPane /\ [][NextPane]_vars

----------------------------------------------------------------------------
(* Properties *)

Ended == state \in {"REPORTED", "EXITED", "CRASHED"}
Interrupted == raised # "none"
Printed(line) == \E i \in 1..Len(stdout) : stdout[i] = line
Total(c) == n_success[c] + n_failure[c]
HasKind(log, kind) == \E i \in 1..Len(log) : log[i].msg.kind = kind
EntryAt(log, key) == log[IndexOfKey(log, key)].msg
Classifies(c) == pc[c] = "inflight" /\ pc'[c] = "closing"
Returns(c) == pc[c] = "closing" /\ pc'[c] = "sleeping"

\* C1: once every run_once call a client began has returned, n_success +
\* n_failure equals the number of calls that returned; a call under way has
\* added at most one.
C1_CountersMatchCycles ==
    \A c \in Clients :
        /\ started[c] = returned[c] => Total(c) = returned[c]
        /\ Total(c) >= returned[c]
        /\ Total(c) <= returned[c] + 1

C1_Witness ==
    \E c \in Clients : returned[c] = 2 /\ n_success[c] = 1 /\ n_failure[c] = 1

\* C2: a run that was interrupted while RUNNING and has ended has printed the
\* final report (it went on to REPORTED).
C2_InterruptedRunReports ==
    (Interrupted /\ Ended) => (state = "REPORTED" /\ Printed("SIMULATION RESULTS"))

\* C3: on either platform branch an interrupted run ends with a notice printed
\* and no exception leaving main.
C3_InterruptHandled ==
    (Interrupted /\ Ended) =>
        /\ escaped = "none"
        /\ Printed("Simulation interrupted.") \/ Printed("Simulation interrupted by user.")

\* C4: no request cycle is aborted by an interrupt: a client stopped by the
\* interrupt has counted every cycle it began and its log holds no Sending entry.
C4_InFlightCycleCompletes ==
    \A c \in Clients :
        pc[c] = "cancelled" => (Total(c) = started[c] /\ ~HasKind(logs[c], "Sending"))

\* C5: the three tasks hold the same deadline, start + duration; every request
\* cycle and every frame begins strictly before it; a client classifies at most
\* one cycle at or after it.
C5_DeadlineRespected ==
    state # "INIT" =>
        /\ \A t \in Tasks : endTime[t] = StartOfRun + SecondsToTicks(duration)
        /\ \A t \in Tasks : iterAt[t] # Never => iterAt[t] < endTime[t]
        /\ \A c \in Clients : lateDone[c] <= 1

C5_Witness ==
    /\ state = "REPORTED"
    /\ frames >= 2
    /\ \E c \in Clients : lateDone[c] = 1 /\ started[c] = 2

\* C6: when run_once returns from a cycle whose response had a status other
\* than 200, the cycle's log entry is the Rate limited entry for 429 and the
\* generic error entry carrying the status otherwise, whatever the body.
C6_StatusDecides ==
    [][\A c \in Clients :
          (Returns(c) /\ response[c].failure = "none" /\ response[c].status # 200) =>
              LET e == EntryAt(logs'[c], log_key[c])
              IN  /\ e.kind = (IF response[c].status = 429 THEN "RateLimited" ELSE "StatusError")
                  /\ e.code = response[c].status
                  /\ e.color = RED
                  /\ n_success'[c] = n_success[c]
                  /\ Total(c)' = returned'[c]]_vars

\* C7: n_success grows, by one, exactly in the step that classifies a status-200
\* response whose echoed n_chars equals the client's; a status-200 response
\* echoing another size adds one failure and writes the Incorrect response entry.
C7_SuccessIffEcho ==
    [][\A c \in Clients :
          LET r == response'[c]
              ok == r.failure = "none" /\ r.status = 200 /\ r.body.kind = "object"
          IN  /\ n_success'[c] # n_success[c] =>
                    (n_success'[c] = n_success[c] + 1 /\ Classifies(c))
              /\ Classifies(c) =>
                    ((n_success'[c] = n_success[c] + 1) <=> (ok /\ r.body.n_chars = n_chars(c)))
              /\ (Classifies(c) /\ ok /\ r.body.n_chars # n_chars(c)) =>
                    /\ n_failure'[c] = n_failure[c] + 1
                    /\ n_success'[c] = n_success[c]
                    /\ EntryAt(logs'[c], log_key[c]).kind = "Incorrect"]_vars

C7_Witness ==
    \E c \in Clients :
        /\ pc[c] = "closing"
        /\ response[c].status = 200
        /\ response[c].body.kind = "object"
        /\ response[c].body.n_chars # n_chars(c)
        /\ EntryAt(logs[c], log_key[c]).kind = "Incorrect"
        /\ n_success[c] = 1
        /\ n_failure[c] = 1

Min(a, b) == IF a <= b THEN a ELSE b
SeqToSet(q) == {q[i] : i \in 1..Len(q)}
LastOf(q, n) == SubSeq(q, Len(q) - Min(n, Len(q)) + 1, Len(q))
PosOf(order, key) == CHOOSE i \in 1..Len(order) : order[i] = key

\* the tail keeps the order in which its keys were first inserted
InInsertionOrder(c, tail) ==
    \A i, j \in 1..Len(tail) :
        i < j => PosOf(firstOrder[c], tail[i].key) < PosOf(firstOrder[c], tail[j].key)

C9_VisibleWidthExact ==
    rendered =>
        /\ VisibleLength(padded) = width
        /\ ControlSequences(padded) = ControlSequences(text)

ReportedAtOnce ==
    /\ state = "REPORTED"
    /\ AllDone
    /\ now = StartOfRun
    /\ Printed("SIMULATION RESULTS")
    /\ \A c \in Clients :
          /\ started[c] <= 1
          /\ report[c].success = n_success[c]
          /\ report[c].failure = n_failure[c]
          /\ started[c] = 0 => get_success_rate(c) = 0

\* C10: with duration = 0 no client issues more than one request, and the run
\* goes on, without the clock having to advance, to the final report, with the
\* three tasks ended and the success rate of a client that sent nothing at 0.
C10_ZeroDurationCompletes ==
    /\ [](duration = 0 => \A c \in Clients : started[c] <= 1)
    /\ (duration = 0 /\ state = "RUNNING") ~> ReportedAtOnce

C10_Witness ==
    /\ duration = 0
    /\ ReportedAtOnce
    /\ \A c \in Clients : started[c] = 0 /\ report[c].rate = Never

----------------------------------------------------------------------------
(* Isolation of failures, the final report, termination *)

BySignal == {"RuntimeError", "KeyboardInterrupt"}
SendingCount(log) == Cardinality({i \in 1..Len(log) : log[i].msg.kind = "Sending"})
OutcomeCount(log) == Len(log) - SendingCount(log)
Handles(c) ==
    /\ pc[c] = "closing" /\ pendingExc[c] # "none"
    /\ pc'[c] # "closing" /\ raised' \notin BySignal
Fails(c) == Handles(c) \/ n_failure'[c] # n_failure[c]

\* C11: a failed cycle of a client (an error response, or an exception raised
\* by the transport or by the decoding of the body) adds one to that client's
\* n_failure and leaves one entry in its log; the exception does not leave
\* run_once: the client goes on to its sleep, the run stays RUNNING, the other
\* tasks keep their position and wake-up time and the other client keeps its
\* counters and log.  A loop ends only at its deadline, and the run leaves
\* RUNNING only with the three loops ended at their deadline or by a signal.
C11_ErrorsIsolated ==
    [][ /\ \A c \in Clients :
            Fails(c) =>
                /\ n_failure'[c] = n_failure[c] + 1
                /\ n_success'[c] = n_success[c]
                /\ EntryAt(logs'[c], log_key[c]).kind \in {"Incorrect", "RateLimited", "StatusError", "Error"}
                /\ Len(logs'[c]) = Len(logs[c])
                /\ Handles(c) => pc'[c] = "sleeping" /\ EntryAt(logs'[c], log_key[c]).kind = "Error"
                /\ state' = "RUNNING" /\ raised' = "none" /\ escaped' = "none"
                /\ \A t \in Tasks \ {c} : pc'[t] = pc[t] /\ wakeAt'[t] = wakeAt[t]
                /\ \A d \in Clients \ {c} :
                      /\ n_success'[d] = n_success[d]
                      /\ n_failure'[d] = n_failure[d]
                      /\ logs'[d] = logs[d]
                /\ frames' = frames
        /\ \A t \in Tasks : (pc[t] # "done" /\ pc'[t] = "done") => now >= endTime[t]
        /\ (state = "RUNNING" /\ state' # "RUNNING") =>
              \/ raised' \in BySignal
              \/ /\ raised' = "none"
                 /\ \A t \in Tasks : pc[t] = "done" /\ now >= endTime[t]
      ]_vars

C11_Witness ==
    /\ state = "REPORTED"
    /\ started[1] = 2 /\ n_failure[1] = 2 /\ HasKind(logs[1], "Error") /\ HasKind(logs[1], "RateLimited")
    /\ n_success[2] = 1 /\ n_failure[2] = 0
    /\ frames >= 2

ReportCount == Cardinality({i \in 1..Len(stdout) : stdout[i] = "SIMULATION RESULTS"})
ReportAfterTasks ==
    /\ ReportCount <= 1
    /\ ReportCount = 1 =>
          /\ AllDone
          /\ \A c \in Clients :
                /\ report[c].success = n_success[c]
                /\ report[c].failure = n_failure[c]
                /\ Len(logs[c]) = started[c] /\ ~HasKind(logs[c], "Sending")
                /\ Total(c) = started[c]

\* C12: the final report is printed only once the two clients and the renderer
\* have ended, the counters and logs it shows are those the clients keep from
\* then on and count every cycle started, and a run that has ended (at its
\* deadline or by an interrupt) has printed the report exactly once.
C12_ReportedOncePerRun ==
    /\ ReportAfterTasks
    /\ Ended => ReportCount = 1

\* C13: in a run that is not interrupted, where the clock advances and every
\* request returns or fails within its timeout, the two client loops and the
\* renderer loop end and the run goes on to print the final report.
C13_RunTerminates ==
    (state = "RUNNING") ~> (state = "REPORTED" /\ AllDone /\ ReportCount = 1)

C13_Witness ==
    /\ state = "REPORTED" /\ AllDone
    /\ duration = MaxDuration
    /\ now >= endTime[1] + MaxLatency
    /\ started[1] >= 2 /\ started[2] = 1 /\ frames >= 2
    /\ lateDone[1] + lateDone[2] >= 1

----------------------------------------------------------------------------
(* The success rate, frames, the effect of a cycle *)

\* C14: in every state each client's get_success_rate is at least 0 and at
\* most 100, it is 0 when n_success + n_failure = 0, and it is 0 or 100 exactly
\* when no cycle or every cycle succeeded.
C14_RateInRange ==
    \A c \in Clients :
        /\ get_success_rate(c) >= 0
        /\ get_success_rate(c) <= 100
        /\ Total(c) = 0 => get_success_rate(c) = 0
        /\ Total(c) > 0 => (get_success_rate(c) = 100 <=> n_failure[c] = 0)
        /\ Total(c) > 0 => (get_success_rate(c) = 0 <=> n_success[c] = 0)

C14_Witness ==
    /\ n_success[2] = 1 /\ n_failure[2] = 0 /\ get_success_rate(2) = 100
    /\ n_success[1] = 1 /\ n_failure[1] = 1 /\ get_success_rate(1) = 50

Whole(c) ==
    /\ OutcomeCount(logs[c]) = Total(c)
    /\ SendingCount(logs[c]) = started[c] - Total(c)
TakesFrame == frames' = frames + 1

\* C15: a client's counter is incremented in the very step that replaces the
\* 'Sending' entry of the cycle by its outcome, so no task runs in between;
\* whenever the renderer takes a frame, each client's log shows as many
\* outcome entries as its counters count, and a 'Sending' entry only for the
\* cycle that has not been counted yet.
C15_FramesSeeWholeCycles ==
    [][ /\ \A c \in Clients :
            /\ Total(c)' - Total(c) = OutcomeCount(logs'[c]) - OutcomeCount(logs[c])
            /\ Total(c)' - Total(c) = SendingCount(logs[c]) - SendingCount(logs'[c])
                  \/ started'[c] # started[c]
        /\ TakesFrame => \A c \in Clients : Whole(c)
      ]_vars

C15_Witness ==
    /\ state = "RUNNING" /\ Due(Display) /\ LoopGuard(Display) /\ frames >= 1
    /\ pc[1] = "closing" /\ pendingExc[1] # "none" /\ Total(1) = 0 /\ HasKind(logs[1], "Sending")
    /\ Total(2) = 1 /\ ~HasKind(logs[2], "Sending")

CycleStep(c) ==
    /\ pc[c] \in {"ready", "sleeping", "inflight", "closing"}
    /\ pc'[c] # pc[c]
    /\ raised' = raised
Renders ==
    \/ TakesFrame
    \/ pc'[Display] # pc[Display] /\ pc[Display] # "new" /\ raised' = raised
    \/ state = "COMPLETED" /\ state' = "REPORTED"
ClientState(c) == <<n_success[c], n_failure[c], logs[c], log_key[c], started[c], pc[c], wakeAt[c]>>

\* C16: a step of a client's cycle (the loop test and the 'Sending' entry, the
\* classification of the response, the return and the sleep) changes, of the
\* clients' counters and logs, only its own: the other client's n_success,
\* n_failure and logs are as before, and so are the renderer's position and the
\* report; a frame, the end of the renderer's loop and the final report change
\* no counter, log or position of either client.  (n_chars, interval, user_id
\* and url are assigned in __init__ only; the model has them as constants.)
C16_CycleChangesOwnStateOnly ==
    [][ /\ \A c \in Clients :
            CycleStep(c) =>
                /\ \A d \in Clients \ {c} : ClientState(d)' = ClientState(d)
                /\ pc'[Display] = pc[Display] /\ frames' = frames
                /\ report' = report /\ stdout' = stdout /\ endTime' = endTime
        /\ Renders => \A c \in Clients : ClientState(c)' = ClientState(c)
      ]_vars

C16_Witness ==
    /\ state = "REPORTED" /\ frames >= 2
    /\ n_success[1] = 1 /\ n_failure[1] = 1 /\ Len(logs[1]) = 2
    /\ n_success[2] = 0 /\ n_failure[2] = 1 /\ Len(logs[2]) = 1
    /\ report[1].success = 1 /\ report[2].failure = 1

----------------------------------------------------------------------------
(* The pace of a client, the order and number of its log entries *)

\* C17: a cycle makes one request: it starts at a loop test only, and its one
\* response or failure ends it, with no second attempt.  Whatever the outcome
\* (success, a classified failure, an exception), the client then sleeps, its
\* wake-up set to the time of the return plus its interval, and its next loop
\* test, if the run is not interrupted first, is at that wake-up time.
C17_OneAttemptThenSleep ==
    [][ \A c \in Clients :
          /\ started'[c] # started[c] =>
                /\ started'[c] = started[c] + 1
                /\ pc[c] \in {"ready", "sleeping"} /\ pc'[c] = "inflight"
                /\ returned[c] = started[c]
          /\ (pc[c] = "inflight" /\ pc'[c] # pc[c]) => pc'[c] \in {"closing", "cancelled"}
          /\ (pc[c] = "closing" /\ pc'[c] # pc[c]) => pc'[c] \in {"sleeping", "cancelled"}
          /\ Returns(c) =>
                /\ wakeAt'[c] = now + interval(c)
                /\ now' = now
                /\ returned'[c] = returned[c] + 1
          /\ (pc[c] = "sleeping" /\ pc'[c] \in {"inflight", "done"}) => now = wakeAt[c]
      ]_vars

C17_Witness ==
    /\ started[1] = 2 /\ returned[1] = 2
    /\ n_success[1] = 1 /\ HasKind(logs[1], "Error")
    /\ pc[1] = "sleeping" /\ wakeAt[1] = now + interval(1)
    /\ pc[2] = "sleeping" /\ n_failure[2] = 1 /\ wakeAt[2] > now

\* C18: in each client's log the timestamp keys of the entries, read in the
\* order of the log, never decrease.
C18_KeysNonDecreasing ==
    \A c \in Clients :
        \A i, j \in 1..Len(logs[c]) : i < j => logs[c][i].key <= logs[c][j].key

RowWidth == pane_width + DividerWidth + pane_width

\* C19 as stated: each of the two panes is max(20, floor((W - 1) / 2)) wide,
\* the divider taking one column.
C19_PaneHalfOfWidthLessOne ==
    pane_width # 0 =>
        pane_width = Max(MinPane, (term_width - 1) \div 2)

\* C19, amended: each of the two panes is max(20, floor((W - 3) / 2)) wide, the
\* divider " | " taking three columns; a terminal of 43 columns or more holds
\* the two panes and the divider with at most one column to spare, a narrower
\* one gets panes of 20.
C19_PaneLeavesRoomForDivider ==
    pane_width # 0 =>
        /\ pane_width = Max(MinPane, (term_width - 3) \div 2)
        /\ pane_width >= MinPane
        /\ term_width >= 2 * MinPane + DividerWidth =>
              /\ RowWidth <= term_width
              /\ RowWidth >= term_width - 1
        /\ term_width < 2 * MinPane + DividerWidth => pane_width = MinPane

C19_Witness ==
    /\ term_width = FallbackWidth
    /\ pane_width = 38
    /\ RowWidth = 79

\* C20: in a run that is not interrupted, a client's log holds at most one
\* 'Sending' entry, and holds one only while a cycle of the client is under
\* way; it never has more entries than the client has started cycles; and
\* once the client's loop has ended it holds no 'Sending' entry.
C20_OneEntryPerCycle ==
    \A c \in Clients :
        /\ SendingCount(logs[c]) <= 1
        /\ SendingCount(logs[c]) = 1 =>
              /\ pc[c] \in {"inflight", "closing"}
              /\ logs[c][Len(logs[c])].msg.kind = "Sending"
              /\ logs[c][Len(logs[c])].key = log_key[c]
        /\ Len(logs[c]) <= started[c]
        /\ pc[c] = "done" => SendingCount(logs[c]) = 0

C20_Witness ==
    /\ pc[1] = "closing" /\ pendingExc[1] # "none" /\ now > sentAt[1]
    /\ started[1] = 2 /\ Len(logs[1]) = 2 /\ SendingCount(logs[1]) = 1
    /\ pc[2] = "sleeping" /\ started[2] = 1 /\ Len(logs[2]) = 1 /\ SendingCount(logs[2]) = 0

====
